---- MODULE Spec2Model ----
(***************************************************************************)
(* Model of modbot.py (Telegram moderation bot, python-telegram-bot v20).  *)
(*                                                                         *)
(* Every handler is an asyncio coroutine.  A handler runs without          *)
(* interruption from one `await` to the next; at an `await` of a transport *)
(* call any other handler may run.  An action of the model is therefore    *)
(* "resume from the pending await, run the synchronous code that follows,  *)
(* issue the next transport call".  Every transport call may succeed or    *)
(* raise.                                                                  *)
(*                                                                         *)
(* Two specifications:                                                     *)
(*   Spec       - the handlers exactly as the file defines them:           *)
(*                filter_message ends at line 270, and lines 277-414 are   *)
(*                the tail of chatid_cmd, where the name `msg` is unbound. *)
(*   PolicySpec - the decision block of lines 277-414 entered with `msg`   *)
(*                bound to the delivered message, i.e. as the continuation *)
(*                of filter_message after the admin bypass of line 267.    *)
(***************************************************************************)
EXTENDS Integers, Sequences, FiniteSets, TLC

\* ---------------------------------------------------------------- CONFIG
FLOOD_LIMIT == 5
FLOOD_WINDOW == 8
WARN_BEFORE_MUTE == 2
MUTE_DURATION_SECONDS == 600
LINK_FILTER == TRUE
BANNED_WORDS == {"nastyword1", "nastyword2"}
ADMIN_BYPASS == TRUE
\* the audit chat is set ("ENV required before running")
ADMIN_LOG_CHAT_ID == TRUE
\* timedelta(days=3), in seconds
RESTRICTION_DURATION == 259200
\* `if score >= 3`
AD_THRESHOLD == 3

\* ---------------------------------------------------------------- bounds
MaxTasks == 2
MaxMsgs == 6
MaxTicks == 1
\* record_message called on its own: number of calls, latest time of a call
MaxEvents == 6
MaxNow == 10
\* ad_score called on its own: longest sentence, in tokens
MaxLen == 2

\* ------------------------------------------------------------ environment
Tasks == 1..MaxTasks
Users == {"u1", "adm", "bot"}
\* from_user.is_bot
IsBot(u) == u = "bot"
\* member.status as get_member reports it
MemberStatus(u) == IF u = "adm" THEN "administrator" ELSE "member"
\* how far the clock (datetime.utcnow) moves between two steps
TickSteps == {FLOOD_WINDOW + 1, RESTRICTION_DURATION}

\* A text is a sequence of whitespace-separated tokens.
PhoneTok == "07123456789"
WhatsTok == "wa.me/x"
InviteTok == "t.me/joinchat/abc"
PriceTok == "$10/g"
SellTok == "selling"
UpSellTok == "SELLING"
PayTok == "paypal"
HiTok == "hi"
BadTok == "nastyword1"
UpBadTok == "NASTYWORD1"
UrlTok == "http://x.y"

NoMsg == [text |-> <<>>, caption |-> <<>>, ents |-> <<>>, none |-> TRUE]
Msg(text, caption, ents) ==
    [text |-> text, caption |-> caption, ents |-> ents, none |-> FALSE]
Plain == Msg(<<HiTok>>, <<>>, <<>>)
\* an advert in a caption that also carries a banned word and a link
Advert == Msg(<<>>, <<SellTok, PhoneTok, BadTok, UrlTok>>, <<4>>)
\* a banned word next to a link
Swear == Msg(<<BadTok, UrlTok>>, <<>>, <<2>>)
Link == Msg(<<HiTok, UrlTok>>, <<>>, <<2>>)
\* the updates the transport delivers to filter_message: sender and message
Updates ==
    ({"u1"} \X {Plain, Advert, Swear, Link})
    \cup {<<"u1", NoMsg>>, <<"adm", Link>>, <<"bot", Plain>>}

\* ------------------------------------------------------------- REGEX
RECURSIVE AnyTok(_, _)
AnyTok(t, S) == IF t = <<>> THEN FALSE
                ELSE Head(t) \in S \/ AnyTok(Tail(t), S)

\* str.lower()
Lower(t) ==
    [i \in 1..Len(t) |-> IF t[i] = UpSellTok THEN SellTok
                         ELSE IF t[i] = UpBadTok THEN BadTok ELSE t[i]]
\* line 72: text or ""
OrEmpty(none, t) == IF none THEN <<>> ELSE t

PHONE_RE(t) == AnyTok(t, {PhoneTok})
WHATSAPP_LINK_RE(t) == AnyTok(t, {WhatsTok})
TELEGRAM_INVITE_RE(t) == AnyTok(t, {InviteTok})
PRICE_WEIGHT_RE(t) == AnyTok(t, {PriceTok})
\* re.IGNORECASE
SELL_KEYWORDS(t) == AnyTok(t, {SellTok, UpSellTok})
PAYMENT_RE(t) == AnyTok(t, {PayTok})
\* re.fullmatch(r"\s*" + PHONE_RE.pattern + r"\s*", t)
PhoneSearch(t) == AnyTok(t, {PhoneTok})
\* re.fullmatch(r"\s*" + PHONE_RE.pattern + r"\s*", t)
PhoneFullMatch(t) == Len(t) = 1 /\ t[1] = PhoneTok

HeavyBonus(t) == IF PhoneFullMatch(t) THEN 3 ELSE 0
\* line 79: the whole text is a phone number
PhoneOnlyBonus(t) == IF PhoneFullMatch(t) THEN 2 ELSE 0

ad_score(text) ==
    LET t == Lower(text)
    IN  (IF PHONE_RE(t) THEN 3 ELSE 0)
      + (IF WHATSAPP_LINK_RE(t) THEN 4 ELSE 0)
      + (IF TELEGRAM_INVITE_RE(t) THEN 3 ELSE 0)
      + (IF PRICE_WEIGHT_RE(t) THEN 3 ELSE 0)
      + (IF SELL_KEYWORDS(t) THEN 3 ELSE 0)
      + (IF PAYMENT_RE(t) THEN 2 ELSE 0)
      + PhoneOnlyBonus(t)

\* pieces: text, caption, then the url / text_link spans of the base text
full_text(m) ==
    LET base == IF m.text # <<>> THEN m.text ELSE m.caption
    IN  m.text \o m.caption \o [i \in 1..Len(m.ents) |-> base[m.ents[i]]]

HasBannedWord(t) == AnyTok(t, BANNED_WORDS)
HasLink(t) == AnyTok(t, {UrlTok, InviteTok})

\* ---------------------------------------------------------------- STATE
VARIABLES
    trusted,            \* TRUSTED_USER_IDS
    message_times,      \* user -> sequence of timestamps
    warnings,           \* user -> warn count
    user_offenses,      \* user -> offense count, on the users that have an entry
    restriction_until,  \* user -> end of restriction, on the users that have an entry
    clock,              \* datetime.utcnow()
    ticks,
    delivered,          \* updates handed to handlers so far
    tasks,              \* the running handlers: position and locals
    stats,              \* history: per user, the escalation decisions taken
    seen,               \* history: ways a message handler has returned without awaiting
    probe               \* arguments and result of a helper called on its own

state == <<trusted, message_times, warnings, user_offenses, restriction_until>>
vars == <<trusted, message_times, warnings, user_offenses, restriction_until,
          clock, ticks, delivered, tasks, stats, seen, probe>>

NoProbe == [kind |-> "none"]

NoCall == [op |-> "none", arg |-> 0]
\* a free handler slot; the locals of a running handler: the update (kind, from,
\* msg, target), until_dt, w, the branch taken, the transport call awaited,
\* whether the restrict of a first offense raised, whether a call so far enforced
\* a decision; history: recs, the sender's messages recorded since this handler
\* found the flood limit reached (counted up to FLOOD_LIMIT).
Idle == [pc |-> "idle", kind |-> "none", from |-> "none", msg |-> NoMsg,
         target |-> "none", until |-> 0, w |-> 0,
         branch |-> "none", call |-> NoCall, failed |-> FALSE, enforced |-> FALSE,
         recs |-> 0]

\* per user: violations decided, and how; since: the messages recorded since the
\* flood mute issued last was decided (counted up to FLOOD_LIMIT, which also
\* stands for "no flood mute yet")
\* lost: a kick of the user has ended all of whose calls raised
NoStats == [viol |-> 0, first |-> 0, held |-> 0, kick |-> 0, since |-> FLOOD_LIMIT,
            lost |-> FALSE]

InitState ==
    /\ trusted = {}
    /\ message_times = [u \in Users |-> <<>>]
    /\ warnings = [u \in Users |-> 0]
    /\ user_offenses = <<>>
    /\ restriction_until = <<>>
    /\ clock = 0
    /\ ticks = 0
    /\ delivered = 0
    /\ tasks = [t \in Tasks |-> Idle]
    /\ stats = [u \in Users |-> NoStats]
    /\ seen = {}

Init == InitState /\ probe = NoProbe

\* ---------------------------------------------------------------- helpers
\* defaultdict(int) read
Offenses(u) == IF u \in DOMAIN user_offenses THEN user_offenses[u] ELSE 0

Put(f, k, v) == [x \in DOMAIN f \cup {k} |-> IF x = k THEN v ELSE f[x]]
Pop(f, k) == [x \in DOMAIN f \ {k} |-> f[x]]

\* the handler issues a transport call and suspends on it
\* transport calls that enforce a decision (get_member only looks up)
Enforcing == {"delete", "restrict", "ban", "unban", "send", "audit", "reply"}
Call(r, op, arg) ==
    [r EXCEPT !.call = [op |-> op, arg |-> arg],
              !.enforced = @ \/ op \in Enforcing]
\* the pending call returns ("ok") or raises ("fail")
Results == {"ok", "fail"}
Ret(r, res) == [r EXCEPT !.call = NoCall]
\* the handler returns (or an exception leaves it): its slot is free again
Finish(r, branch) == Idle
At(r, pc) == [r EXCEPT !.pc = pc]

FreeSlot(t) == tasks[t].pc = "idle" /\ delivered < MaxMsgs
Start(t, r) ==
    /\ tasks' = [tasks EXCEPT ![t] = r]
    /\ delivered' = delivered + 1

Tick ==
    /\ ticks < MaxTicks
    /\ \E d \in TickSteps : clock' = clock + d
    /\ ticks' = ticks + 1
    /\ UNCHANGED <<state, delivered, tasks, stats, seen, probe>>


\* ------------------------------------------------------- HELPERS (83-121)
\* is_admin: the lookup's result, False when get_member raised
is_admin(u, res) == res = "ok" /\ MemberStatus(u) \in {"administrator", "creator"}

RECURSIVE EvictAtWindow(_, _)
EvictAtWindow(dq, now) ==
    IF dq # <<>> /\ now - Head(dq) >= FLOOD_WINDOW THEN EvictAtWindow(Tail(dq), now)
    ELSE dq
\* the eviction loop of record_message: drop from the left while older than the window
RECURSIVE Evict(_, _)
Evict(dq, now) ==
    IF dq # <<>> /\ now - Head(dq) > FLOOD_WINDOW THEN Evict(Tail(dq), now) ELSE dq

record_message(dq, now) == Evict(Append(dq, now), now)

\* mute_user, line 99, called with MUTE_DURATION_SECONDS: until = utcnow() + secs
mute_until(now) == now + MUTE_DURATION_SECONDS

\* send_admin_log: a send to the audit chat when one is configured, else a local log line
SendAdminLog(r, pcNext, after) ==
    IF ADMIN_LOG_CHAT_ID THEN At(Call(r, "audit", 0), pcNext) ELSE after

\* ------------------------------------------------ filter_message (256-270)
NeverTrusted(u) == FALSE
\* line 262: msg.from_user.id in TRUSTED_USER_IDS
IsTrusted(u) == u \in trusted

\* lines 257-267: no message; bot sender; trusted sender; else the admin lookup is awaited
filter_message(t) ==
    /\ FreeSlot(t)
    /\ \E up \in Updates :
        LET u == up[1]
            m == up[2]
            r == [Idle EXCEPT !.kind = "message", !.from = u, !.msg = m] IN
        /\ Start(t, IF m.none \/ IsBot(u) \/ IsTrusted(u) THEN Finish(r, "exempt")
                    ELSE At(Call(r, "get_member", 0), "bypass"))
        /\ seen' = IF m.none \/ IsBot(u) THEN seen
                   ELSE IF IsTrusted(u) THEN seen \cup {"trusted"}
                   ELSE seen
    /\ UNCHANGED <<state, clock, ticks, stats, probe>>

\* lines 267-270 as written: the lookup returns and the function ends either way
filter_return(t) ==
    /\ tasks[t].pc = "bypass"
    /\ \E res \in Results :
        LET r == Ret(tasks[t], res) IN
        /\ tasks' = [tasks EXCEPT ![t] = Finish(r, "return")]
        /\ seen' = IF is_admin(r.from, res) THEN seen ELSE seen \cup {"dropped"}
    /\ UNCHANGED <<state, clock, ticks, delivered, stats, probe>>

\* ------------------------------------------------ decision block (277-414)
\* lines 405-414 up to the first await: feed the flood tracker
FloodStep(r) ==
    LET dq == record_message(message_times[r.from], clock)
    IN  [times |-> [message_times EXCEPT ![r.from] = dq],
         fed |-> TRUE,
         task |-> IF Len(dq) >= FLOOD_LIMIT
                  THEN At(Call(r, "send", 0), "flood_send")
                  ELSE Finish(r, "allow")]

UpTo(n) == IF n < FLOOD_LIMIT THEN n + 1 ELSE FLOOD_LIMIT
\* history: handler t has recorded a message of user u (line 405)
Recorded(ts, t, u) ==
    [x \in Tasks |->
        IF x # t /\ ts[x].from = u /\ ts[x].pc \in {"flood_send", "flood_mute"}
        THEN [ts[x] EXCEPT !.recs = UpTo(@)] ELSE ts[x]]

BannedWordFirst(score, text) ==
    IF HasBannedWord(text) THEN "banned"
    ELSE IF score >= AD_THRESHOLD THEN "ad"
    ELSE IF LINK_FILTER /\ HasLink(text) THEN "link"
    ELSE "flood"
\* lines 297, 390, 397, 405: the tests in the order the block makes them; every
\* branch they guard returns (332, 366, 387, 395, 403)
Rule(score, text) ==
    IF score >= AD_THRESHOLD THEN "ad"
    ELSE IF HasBannedWord(text) THEN "banned"
    ELSE IF LINK_FILTER /\ HasLink(text) THEN "link"
    ELSE "flood"

\* lines 277-300, 390-391, 397-398, 405: aggregate, score, pick the branch
Decide(r) ==
    LET text == full_text(r.msg)
        down == Lower(text)
        rule == Rule(ad_score(text), down)
    IN  IF rule = "ad"
        THEN [times |-> message_times, fed |-> FALSE,
              task |-> At(Call(r, "delete", 0), "ad_delete")]
        ELSE IF rule = "banned"
        THEN [times |-> message_times, fed |-> FALSE,
              task |-> At(Call(r, "delete", 0), "bw_delete")]
        ELSE IF rule = "link"
        THEN [times |-> message_times, fed |-> FALSE,
              task |-> At(Call(r, "get_member", 0), "link_admin")]
        ELSE FloodStep(r)

\* lines 267-270 followed by the block: an admin returns, anyone else is evaluated
policy_enter(t) ==
    /\ tasks[t].pc = "bypass"
    /\ \E res \in Results :
        LET r == Ret(tasks[t], res) IN
        IF is_admin(r.from, res)
        THEN /\ tasks' = [tasks EXCEPT ![t] = Finish(r, "admin")]
             /\ UNCHANGED <<message_times, stats>>
        ELSE LET d == Decide(r) IN
             /\ message_times' = d.times
             /\ IF d.fed
                THEN /\ tasks' = Recorded([tasks EXCEPT ![t] = d.task], t, r.from)
                     /\ stats' = [stats EXCEPT ![r.from].since = UpTo(@)]
                ELSE /\ tasks' = [tasks EXCEPT ![t] = d.task]
                     /\ UNCHANGED stats
    /\ UNCHANGED <<trusted, warnings, user_offenses, restriction_until,
                   clock, ticks, delivered, seen, probe>>

SetOffense(off, u) == Put(off, u, 1)
\* line 304: user_offenses[user_id] += 1
IncOffense(off, u) == Put(off, u, (IF u \in DOMAIN off THEN off[u] ELSE 0) + 1)

ShortRestriction(now) == now + MUTE_DURATION_SECONDS
\* line 308: until_dt = now + timedelta(days=3)
RestrictionEnd(now) == now + RESTRICTION_DURATION

AnyExpiry(ru, u, now) == u \in DOMAIN ru
\* lines 336-337: until_dt = restriction_until.get(user_id); until_dt and now >= until_dt
KickDue(ru, u, now) == u \in DOMAIN ru /\ now >= ru[u]

KeepOffense(off, u) == off
\* line 364: user_offenses.pop(user_id, None)
PopOffense(off, u) == Pop(off, u)

KeepRestriction(ru, u) == ru
\* line 365: restriction_until.pop(user_id, None)
PopRestriction(ru, u) == Pop(ru, u)

RollBack(f, u) == Pop(f, u)
\* lines 111-112: restrict_chat_member raised: a warning is logged, nothing else
RestrictFailed(f, u) == f

\* lines 301-310, 336-340, 370: the delete returned (or raised); count the
\* offense and branch on the count and the restriction expiry
ad_offense(t) ==
    /\ tasks[t].pc = "ad_delete"
    /\ \E res \in Results :
        LET r == Ret(tasks[t], res)
            u == r.from
            now == clock
            off == IncOffense(user_offenses, u)
        IN  /\ user_offenses' = off
            /\ IF off[u] = 1
               THEN LET until_dt == RestrictionEnd(now) IN
                    /\ restriction_until' = Put(restriction_until, u, until_dt)
                    /\ tasks' = [tasks EXCEPT ![t] =
                          At(Call([r EXCEPT !.until = until_dt, !.branch = "first"],
                                  "restrict", until_dt), "first_restrict")]
                    /\ stats' = [stats EXCEPT ![u].viol = @ + 1, ![u].first = @ + 1]
               ELSE /\ UNCHANGED restriction_until
                    /\ IF KickDue(restriction_until, u, now)
                       THEN /\ tasks' = [tasks EXCEPT ![t] =
                                  At(Call([r EXCEPT !.until = restriction_until[u],
                                                    !.branch = "kick"],
                                          "ban", 0), "kick_ban")]
                            /\ stats' = [stats EXCEPT ![u].viol = @ + 1, ![u].kick = @ + 1]
                       ELSE /\ tasks' = [tasks EXCEPT ![t] =
                                  At(Call([r EXCEPT !.until =
                                              IF u \in DOMAIN restriction_until
                                              THEN restriction_until[u] ELSE 0,
                                           !.branch = "held"],
                                          "send", 0), "held_send")]
                            /\ stats' = [stats EXCEPT ![u].viol = @ + 1, ![u].held = @ + 1]
    /\ UNCHANGED <<trusted, message_times, warnings, clock, ticks,
                   delivered, seen, probe>>

\* lines 110-112, 318: the restrict returned or raised; warn in the chat
first_restricted(t) ==
    /\ tasks[t].pc = "first_restrict"
    /\ \E res \in Results :
        LET r == [Ret(tasks[t], res) EXCEPT !.failed = (res = "fail")]
            u == r.from
        IN  /\ tasks' = [tasks EXCEPT ![t] = At(Call(r, "send", 0), "first_send")]
            /\ user_offenses' = IF res = "fail" THEN RestrictFailed(user_offenses, u)
                                ELSE user_offenses
            /\ restriction_until' = IF res = "fail" THEN RestrictFailed(restriction_until, u)
                                    ELSE restriction_until
    /\ UNCHANGED <<trusted, message_times, warnings, clock, ticks,
                   delivered, stats, seen, probe>>

\* lines 319-332: the chat warning returned or raised; admin log; return
first_sent(t) ==
    /\ tasks[t].pc = "first_send"
    /\ \E res \in Results :
        LET r == Ret(tasks[t], res) IN
        tasks' = [tasks EXCEPT ![t] = SendAdminLog(r, "end_log", Finish(r, r.branch))]
    /\ UNCHANGED <<state, clock, ticks, delivered, stats, seen, probe>>

\* lines 119-121 then the return of 332 / 387 (also 395, 403: the last send of a branch)
end_log(t) ==
    /\ tasks[t].pc = "end_log"
    /\ \E res \in Results :
        LET r == Ret(tasks[t], res) IN
        tasks' = [tasks EXCEPT ![t] = Finish(r, r.branch)]
    /\ UNCHANGED <<state, clock, ticks, delivered, stats, seen, probe>>

\* lines 340-346: the ban returned: unban; or raised: skip the unban, notify the chat
kick_banned(t) ==
    /\ tasks[t].pc = "kick_ban"
    /\ \E res \in Results :
        LET r == [Ret(tasks[t], res) EXCEPT !.failed = (res = "fail")] IN
        tasks' = [tasks EXCEPT ![t] =
                    IF res = "ok" THEN At(Call(r, "unban", 0), "kick_unban")
                    ELSE At(Call(r, "send", 0), "kick_send")]
    /\ UNCHANGED <<state, clock, ticks, delivered, stats, seen, probe>>

\* lines 341-346: the unban returned or raised; notify the chat
kick_unbanned(t) ==
    /\ tasks[t].pc = "kick_unban"
    /\ \E res \in Results :
        LET r == Ret(tasks[t], res) IN
        tasks' = [tasks EXCEPT ![t] = At(Call(r, "send", 0), "kick_send")]
    /\ UNCHANGED <<state, clock, ticks, delivered, stats, seen, probe>>

\* lines 363-366: pop both entries and return
KickReset(t, r) ==
    /\ user_offenses' = PopOffense(user_offenses, r.from)
    /\ restriction_until' = PopRestriction(restriction_until, r.from)
    /\ tasks' = [tasks EXCEPT ![t] = Finish(r, "kick")]
    /\ stats' = [stats EXCEPT ![r.from].lost = @ \/ r.failed]

\* lines 349-366: the notification returned or raised; admin log; when no audit
\* chat is configured the log is local and the reset follows at once
kick_sent(t) ==
    /\ tasks[t].pc = "kick_send"
    /\ \E res \in Results :
        LET r == [Ret(tasks[t], res) EXCEPT !.failed = (@ /\ res = "fail")] IN
        IF ADMIN_LOG_CHAT_ID
        THEN /\ tasks' = [tasks EXCEPT ![t] = At(Call(r, "audit", 0), "kick_log")]
             /\ UNCHANGED <<user_offenses, restriction_until, stats>>
        ELSE KickReset(t, r)
    /\ UNCHANGED <<trusted, message_times, warnings, clock, ticks,
                   delivered, seen, probe>>

\* lines 119-121, 363-366: the audit send returned or raised; reset; return
kick_logged(t) ==
    /\ tasks[t].pc = "kick_log"
    /\ \E res \in Results :
        KickReset(t, [Ret(tasks[t], res) EXCEPT !.failed = (@ /\ res = "fail")])
    /\ UNCHANGED <<trusted, message_times, warnings, clock, ticks,
                   delivered, seen, probe>>

\* lines 374-387: the notice returned or raised; admin log; return
held_sent(t) ==
    /\ tasks[t].pc = "held_send"
    /\ \E res \in Results :
        LET r == Ret(tasks[t], res) IN
        tasks' = [tasks EXCEPT ![t] = SendAdminLog(r, "end_log", Finish(r, r.branch))]
    /\ UNCHANGED <<state, clock, ticks, delivered, stats, seen, probe>>

BannedWordCounts(off, u) == IncOffense(off, u)
\* lines 390-395: the banned-word branch deletes and tells the chat; it counts nothing
BannedWordKeeps(off, u) == off

\* lines 391-393: banned word: the delete returned or raised; tell the chat
bw_deleted(t) ==
    /\ tasks[t].pc = "bw_delete"
    /\ \E res \in Results :
        LET r == Ret(tasks[t], res) IN
        /\ tasks' = [tasks EXCEPT ![t] =
                    At(Call([r EXCEPT !.branch = "banned"], "send", 0), "end_log")]
        /\ user_offenses' = BannedWordKeeps(user_offenses, r.from)
    /\ UNCHANGED <<trusted, message_times, warnings, restriction_until,
                   clock, ticks, delivered, stats, seen, probe>>

\* lines 398-405: the second admin lookup returned or raised: a non-admin's link
\* is deleted; an admin's message falls through to the flood step
link_checked(t) ==
    /\ tasks[t].pc = "link_admin"
    /\ \E res \in Results :
        LET r == Ret(tasks[t], res) IN
        IF is_admin(r.from, res)
        THEN /\ tasks' = Recorded([tasks EXCEPT ![t] = FloodStep(r).task], t, r.from)
             /\ message_times' = FloodStep(r).times
             /\ stats' = [stats EXCEPT ![r.from].since = UpTo(@)]
        ELSE /\ tasks' = [tasks EXCEPT ![t] = At(Call(r, "delete", 0), "link_delete")]
             /\ UNCHANGED <<message_times, stats>>
    /\ UNCHANGED <<trusted, warnings, user_offenses, restriction_until,
                   clock, ticks, delivered, seen, probe>>

\* lines 400-401: the delete returned or raised; tell the chat
link_deleted(t) ==
    /\ tasks[t].pc = "link_delete"
    /\ \E res \in Results :
        LET r == Ret(tasks[t], res) IN
        tasks' = [tasks EXCEPT ![t] =
                    At(Call([r EXCEPT !.branch = "link"], "send", 0), "end_log")]
    /\ UNCHANGED <<state, clock, ticks, delivered, stats, seen, probe>>

\* lines 407-414: the "Muted" notice returned: mute_user computes its deadline and
\* restricts; or raised: the except of line 413 ends the handler
flood_sent(t) ==
    /\ tasks[t].pc = "flood_send"
    /\ \E res \in Results :
        LET r == [Ret(tasks[t], res) EXCEPT !.branch = "flood"] IN
        /\ tasks' = [tasks EXCEPT ![t] =
                    IF res = "ok"
                    THEN At(Call(r, "restrict", mute_until(clock)), "flood_mute")
                    ELSE Finish(r, "flood")]
        /\ stats' = IF res = "ok" THEN [stats EXCEPT ![r.from].since = r.recs]
                     ELSE stats
    /\ UNCHANGED <<state, clock, ticks, delivered, seen, probe>>

\* lines 102-104, 412: the mute returned or raised (mute_user swallows it); clear the tracker
flood_muted(t) ==
    /\ tasks[t].pc = "flood_mute"
    /\ \E res \in Results :
        LET r == Ret(tasks[t], res) IN
        /\ message_times' = [message_times EXCEPT ![r.from] = <<>>]
        /\ tasks' = [tasks EXCEPT ![t] = Finish(r, "flood")]
    /\ UNCHANGED <<trusted, warnings, user_offenses, restriction_until,
                   clock, ticks, delivered, stats, seen, probe>>


\* ------------------------------------------------------ COMMANDS (200-243)
\* the /warn updates: sender and the author of the replied-to message ("none":
\* the command replies to nothing).  warn_cmd never reads the sender.
WarnUpdates == {<<"u1", "u1">>, <<"adm", "u1">>, <<"u1", "none">>}
\* the /trust and /untrust updates: sender and the user named (by reply or by id)
TrustUpdates == {<<"adm", "u1">>, <<"adm", "none">>, <<"u1", "u1">>}

\* lines 201-206: no reply target: usage text; else count the warning and report it
warn_cmd(t) ==
    /\ FreeSlot(t)
    /\ \E up \in WarnUpdates :
        LET target == up[2]
            r == [Idle EXCEPT !.kind = "warn", !.from = up[1], !.target = target] IN
        IF target = "none"
        THEN /\ Start(t, At(Call([r EXCEPT !.branch = "usage"], "reply", 0), "cmd_reply"))
             /\ UNCHANGED warnings
        ELSE /\ warnings' = [warnings EXCEPT ![target] = @ + 1]
             /\ Start(t, At(Call([r EXCEPT !.w = warnings[target] + 1],
                                 "reply", 0), "warn_reply"))
    /\ UNCHANGED <<trusted, message_times, user_offenses, restriction_until,
                   clock, ticks, stats, seen, probe>>

\* lines 206-208: the reply returned: below the threshold the handler ends, at it
\* mute_user restricts; the reply raised: the exception leaves the handler
warn_replied(t) ==
    /\ tasks[t].pc = "warn_reply"
    /\ \E res \in Results :
        LET r == Ret(tasks[t], res) IN
        tasks' = [tasks EXCEPT ![t] =
                    IF res = "fail" THEN Finish(r, "raised")
                    ELSE IF r.w >= WARN_BEFORE_MUTE
                    THEN At(Call(r, "restrict", mute_until(clock)), "warn_mute")
                    ELSE Finish(r, "warned")]
    /\ UNCHANGED <<state, clock, ticks, delivered, stats, seen, probe>>

\* lines 102-104, 209: the mute returned or raised (swallowed); announce the auto-mute
warn_muted(t) ==
    /\ tasks[t].pc = "warn_mute"
    /\ \E res \in Results :
        LET r == Ret(tasks[t], res) IN
        tasks' = [tasks EXCEPT ![t] = At(Call(r, "reply", 0), "warn_reply2")]
    /\ UNCHANGED <<state, clock, ticks, delivered, stats, seen, probe>>

\* lines 209-210: the announcement returned: reset the count; raised: the
\* exception leaves the handler before the reset
warn_reset(t) ==
    /\ tasks[t].pc = "warn_reply2"
    /\ \E res \in Results :
        LET r == Ret(tasks[t], res) IN
        IF res = "ok"
        THEN /\ warnings' = [warnings EXCEPT ![r.target] = 0]
             /\ tasks' = [tasks EXCEPT ![t] = Finish(r, "automuted")]
        ELSE /\ tasks' = [tasks EXCEPT ![t] = Finish(r, "raised")]
             /\ UNCHANGED warnings
    /\ UNCHANGED <<trusted, message_times, user_offenses, restriction_until,
                   clock, ticks, delivered, stats, seen, probe>>

\* the last reply of a command returned or raised; the handler ends
cmd_replied(t) ==
    /\ tasks[t].pc = "cmd_reply"
    /\ \E res \in Results :
        tasks' = [tasks EXCEPT ![t] = Finish(Ret(tasks[t], res), tasks[t].branch)]
    /\ UNCHANGED <<state, clock, ticks, delivered, stats, seen, probe>>

\* line 220 / 233: the admin lookup of /trust and /untrust is awaited
TrustStart(t, kind) ==
    /\ FreeSlot(t)
    /\ \E up \in TrustUpdates :
        Start(t, At(Call([Idle EXCEPT !.kind = kind, !.from = up[1], !.target = up[2]],
                         "get_member", 0), "trust_admin"))
    /\ UNCHANGED <<state, clock, ticks, stats, seen, probe>>

trust_cmd(t) == TrustStart(t, "trust")
untrust_cmd(t) == TrustStart(t, "untrust")

\* lines 220-230 / 233-243: not an admin: "Admin only."; no usable target: usage
\* text; else add to (discard from) the trusted set and confirm
trust_checked(t) ==
    /\ tasks[t].pc = "trust_admin"
    /\ \E res \in Results :
        LET r == Ret(tasks[t], res) IN
        IF ~is_admin(r.from, res)
        THEN /\ tasks' = [tasks EXCEPT ![t] =
                   At(Call([r EXCEPT !.branch = "denied"], "reply", 0), "cmd_reply")]
             /\ UNCHANGED trusted
        ELSE IF r.target = "none"
        THEN /\ tasks' = [tasks EXCEPT ![t] =
                   At(Call([r EXCEPT !.branch = "usage"], "reply", 0), "cmd_reply")]
             /\ UNCHANGED trusted
        ELSE /\ trusted' = IF r.kind = "trust" THEN trusted \cup {r.target}
                           ELSE trusted \ {r.target}
             /\ tasks' = [tasks EXCEPT ![t] =
                   At(Call([r EXCEPT !.branch = r.kind], "reply", 0), "cmd_reply")]
    /\ UNCHANGED <<message_times, warnings, user_offenses, restriction_until,
                   clock, ticks, delivered, stats, seen, probe>>

\* lines 272-274: /chatid replies with the chat id
chatid_cmd(t) ==
    /\ FreeSlot(t)
    /\ \E u \in {"u1"} :
        Start(t, At(Call([Idle EXCEPT !.kind = "chatid", !.from = u], "reply", 0),
                    "chatid_reply"))
    /\ UNCHANGED <<state, clock, ticks, stats, seen, probe>>

\* lines 274-279 as written: the reply raised, or it returned and line 279 reads
\* the unbound name `msg`: NameError; either way the handler ends there
chatid_replied(t) ==
    /\ tasks[t].pc = "chatid_reply"
    /\ \E res \in Results :
        tasks' = [tasks EXCEPT ![t] =
                    Finish(Ret(tasks[t], res),
                           IF res = "ok" THEN "NameError" ELSE "raised")]
    /\ UNCHANGED <<state, clock, ticks, delivered, stats, seen, probe>>

\* ------------------------------- /ban /kick /mute /unmute /pin (135-198)
\* the updates of these commands: sender and the author of the replied-to
\* message ("none": the command replies to nothing)
ModUpdates == {<<"adm", "u1">>, <<"u1", "u1">>, <<"u1", "adm">>, <<"adm", "none">>}
\* line 165: minutes = 10 when the command carries no argument
DefaultMuteMinutes == 10

\* lines 136-138 (148-150, 161-163, 174-176, 190-192): no reply target: usage
\* text; else the admin lookup is awaited
ModStart(t, kind) ==
    /\ FreeSlot(t)
    /\ \E up \in ModUpdates :
        LET r == [Idle EXCEPT !.kind = kind, !.from = up[1], !.target = up[2]] IN
        IF up[2] = "none"
        THEN Start(t, At(Call([r EXCEPT !.branch = "usage"], "reply", 0), "cmd_reply"))
        ELSE Start(t, At(Call(r, "get_member", 0), "mod_admin"))
    /\ UNCHANGED <<state, clock, ticks, stats, seen, probe>>

ban_cmd(t) == ModStart(t, "ban")
kick_cmd(t) == ModStart(t, "kick")
mute_cmd(t) == ModStart(t, "mute")
unmute_cmd(t) == ModStart(t, "unmute")
pin_cmd(t) == ModStart(t, "pin")

\* the transport call a command makes for an admin: ban_member (142), kick_member
\* (154: the ban under the library's older name; where the library lacks it the
\* attribute read raises into the except of 156 like a failed call),
\* mute_user (170) and the unmute (184) restrict, pin_message (195)
ModCall(r, now) ==
    CASE r.kind = "ban" -> Call(r, "ban", 0)
      [] r.kind = "kick" -> Call(r, "ban", 0)
      [] r.kind = "mute" -> Call(r, "restrict", now + DefaultMuteMinutes * 60)
      [] r.kind = "unmute" -> Call(r, "restrict", 0)
      [] r.kind = "pin" -> Call(r, "pin", 0)

\* lines 138-142 and alike: not an admin (or the lookup raised): "Admin only.";
\* else the command's transport call
mod_checked(t) ==
    /\ tasks[t].pc = "mod_admin"
    /\ \E res \in Results :
        LET r == Ret(tasks[t], res) IN
        tasks' = [tasks EXCEPT ![t] =
                    IF ~is_admin(r.from, res)
                    THEN At(Call([r EXCEPT !.branch = "denied"], "reply", 0), "cmd_reply")
                    ELSE At(ModCall([r EXCEPT !.branch = r.kind], clock), "mod_call")]
    /\ UNCHANGED <<state, clock, ticks, delivered, stats, seen, probe>>

\* lines 142-145 and alike: the call returned or raised (logged): confirm; /kick
\* unbans after a ban that returned (155)
mod_called(t) ==
    /\ tasks[t].pc = "mod_call"
    /\ \E res \in Results :
        LET op == tasks[t].call.op
            r == Ret(tasks[t], res) IN
        tasks' = [tasks EXCEPT ![t] =
                    IF r.kind = "kick" /\ op = "ban" /\ res = "ok"
                    THEN At(Call(r, "unban", 0), "mod_call")
                    ELSE At(Call(r, "reply", 0), "cmd_reply")]
    /\ UNCHANGED <<state, clock, ticks, delivered, stats, seen, probe>>

\* ---------------------------------------------------------- specifications
Commands(t) ==
    \/ warn_cmd(t) \/ warn_replied(t) \/ warn_muted(t) \/ warn_reset(t)
    \/ trust_cmd(t) \/ untrust_cmd(t) \/ trust_checked(t) \/ cmd_replied(t)

\* the commands that only call the transport: they touch none of the tables
Moderation(t) ==
    \/ ban_cmd(t) \/ kick_cmd(t) \/ mute_cmd(t) \/ unmute_cmd(t) \/ pin_cmd(t)
    \/ mod_checked(t) \/ mod_called(t)

\* the handlers main() registers, as the file defines them
Next ==
    \/ Tick
    \/ \E t \in Tasks :
        \/ filter_message(t) \/ filter_return(t)
        \/ chatid_cmd(t) \/ chatid_replied(t)
        \/ Commands(t) \/ Moderation(t)

Spec == Init /\ [][Next]_vars

Policy(t) ==
    \/ policy_enter(t) \/ ad_offense(t)
    \/ first_restricted(t) \/ first_sent(t) \/ end_log(t)
    \/ kick_banned(t) \/ kick_unbanned(t) \/ kick_sent(t) \/ kick_logged(t)
    \/ held_sent(t) \/ bw_deleted(t)
    \/ link_checked(t) \/ link_deleted(t)
    \/ flood_sent(t) \/ flood_muted(t)

\* the message handler continued by the decision block
PolicyNext ==
    \/ Tick
    \/ \E t \in Tasks : filter_message(t) \/ Policy(t) \/ Commands(t)

PolicySpec == Init /\ [][PolicyNext]_vars

\* ------------------------------------------ /warn handled one at a time
\* a /warn is taken up when no handler is running (the application built at
\* line 420 processes one update after the other)
warn_next(t) == (\A x \in Tasks : tasks[x].pc = "idle") /\ warn_cmd(t)

WarnNext ==
    \E t \in Tasks :
        warn_next(t) \/ warn_replied(t) \/ warn_muted(t) \/ warn_reset(t) \/ cmd_replied(t)

WarnSpec == Init /\ [][WarnNext]_vars

\* ------------------------------------------------ ad_score on its own (69-80)
Vocabulary == {PhoneTok, WhatsTok, InviteTok, PriceTok, SellTok, UpSellTok, PayTok, HiTok}
Sentences == UNION {[1..n -> Vocabulary] : n \in 0..MaxLen}

\* the argument is missing (None), or a sentence a followed by a sentence b;
\* sa, sab: the scores of a and of a followed by b, -1 before the call
ScoreInit ==
    /\ InitState
    /\ \/ probe = [kind |-> "score", none |-> TRUE, a |-> <<>>, b |-> <<>>,
                   sa |-> 0 - 1, sab |-> 0 - 1]
       \/ \E a \in Sentences, b \in Sentences :
            probe = [kind |-> "score", none |-> FALSE, a |-> a, b |-> b,
                     sa |-> 0 - 1, sab |-> 0 - 1]

ad_score_call ==
    /\ probe.kind = "score"
    /\ probe.sa < 0
    /\ probe' = [probe EXCEPT !.sa = ad_score(OrEmpty(probe.none, probe.a)),
                              !.sab = ad_score(OrEmpty(probe.none, probe.a \o probe.b))]
    /\ UNCHANGED <<state, clock, ticks, delivered, tasks, stats, seen>>

ScoreSpec == ScoreInit /\ [][ad_score_call]_vars

\* ------------------------------------------- record_message on its own (90-96)
\* one user's deque; hist: the times of all calls so far; cnt: the last result
TrackerInit ==
    /\ InitState
    /\ probe = [kind |-> "flood", hist |-> <<>>, dq |-> <<>>, now |-> 0, cnt |-> 0]

\* a call at a time `now` not before the previous call
record_message_call ==
    /\ probe.kind = "flood"
    /\ Len(probe.hist) < MaxEvents
    /\ \E now \in probe.now..MaxNow :
        LET dq == record_message(probe.dq, now) IN
        probe' = [kind |-> "flood", hist |-> Append(probe.hist, now),
                  dq |-> dq, now |-> now, cnt |-> Len(dq)]
    /\ UNCHANGED <<state, clock, ticks, delivered, tasks, stats, seen>>

TrackerSpec == TrackerInit /\ [][record_message_call]_vars

\* ------------------------------------------------- the manual commands
\* who sends the commands of a run: "members": senders that are no admins;
\* "lookup_fails": any sender, and every get_member lookup raises; "any": any
\* sender, lookups return or raise
Scenarios == {"members", "lookup_fails", "any"}
CommandInit ==
    /\ InitState
    /\ probe \in {[kind |-> "commands", senders |-> sc] : sc \in Scenarios}

IsAdmin(u) == MemberStatus(u) \in {"administrator", "creator"}

\* a command arrives (handlers 425-434)
command_cmd(t) ==
    /\ \/ ban_cmd(t) \/ kick_cmd(t) \/ mute_cmd(t) \/ unmute_cmd(t) \/ pin_cmd(t)
       \/ warn_cmd(t) \/ trust_cmd(t) \/ untrust_cmd(t) \/ chatid_cmd(t)
    /\ probe.senders = "members" => ~IsAdmin(tasks'[t].from)

\* the admin lookup of a command is back
command_checked(t) ==
    /\ mod_checked(t) \/ trust_checked(t)
    /\ probe.senders = "lookup_fails" => tasks'[t].branch = "denied"

CommandNext ==
    \E t \in Tasks :
        \/ command_cmd(t) \/ command_checked(t) \/ mod_called(t)
        \/ warn_replied(t) \/ warn_muted(t) \/ warn_reset(t)
        \/ cmd_replied(t) \/ chatid_replied(t)

CommandSpec == CommandInit /\ [][CommandNext]_vars


\* ------------------------------------------------------------ properties
\* handler t takes a step (a change of its history field alone is none)
Steps(t) == [tasks'[t] EXCEPT !.recs = 0] # [tasks[t] EXCEPT !.recs = 0]
Sender(t) == tasks[t].from
Kicking == {"restrict", "ban", "unban"}

\* C1: every message of a sender who is not a bot, not trusted and not a bypassed
\* admin is scored and run through the decision rules: no such message has been
\* returned from the handler unevaluated.
C1_NoMessageDropped == "dropped" \notin seen

\* C2: a qualifying violation by a user without offenses, decided at time `now`,
\* sets the offense count to 1 and the restriction expiry to now +
\* RESTRICTION_DURATION, and issues the restrict call with exactly that expiry.
C2_FirstOffense ==
    [][\A t \in Tasks :
        (tasks[t].pc = "ad_delete" /\ Steps(t) /\ Offenses(Sender(t)) = 0)
        => /\ Sender(t) \in DOMAIN user_offenses'
           /\ user_offenses'[Sender(t)] = 1
           /\ Sender(t) \in DOMAIN restriction_until'
           /\ restriction_until'[Sender(t)] = clock + RESTRICTION_DURATION
           /\ tasks'[t].branch = "first"
           /\ tasks'[t].call = [op |-> "restrict", arg |-> clock + RESTRICTION_DURATION]
      ]_vars

\* a first offense decided after the clock has moved, its restrict call pending
C2_Witness ==
    \E t \in Tasks :
        /\ tasks[t].pc = "first_restrict"
        /\ clock = FLOOD_WINDOW + 1
        /\ Offenses(Sender(t)) = 1
        /\ restriction_until[Sender(t)] = FLOOD_WINDOW + 1 + RESTRICTION_DURATION
        /\ tasks[t].call.arg = restriction_until[Sender(t)]

\* C3: a qualifying violation by a user with offense count >= 1, decided before the
\* restriction expires, adds one to the count and leaves the expiry as it is, and
\* that handling issues no restrict, ban or unban call and writes nothing more.
C3_HeldDuringRestriction ==
    [][\A t \in Tasks :
        /\ (/\ tasks[t].pc = "ad_delete" /\ Steps(t)
            /\ Offenses(Sender(t)) >= 1
            /\ Sender(t) \in DOMAIN restriction_until
            /\ clock < restriction_until[Sender(t)])
           => /\ user_offenses'[Sender(t)] = user_offenses[Sender(t)] + 1
              /\ restriction_until' = restriction_until
              /\ tasks'[t].branch = "held"
              /\ tasks'[t].call.op \notin Kicking
        /\ (tasks[t].branch = "held" /\ Steps(t))
           => /\ tasks'[t].call.op \notin Kicking
              /\ UNCHANGED <<user_offenses, restriction_until>>
      ]_vars

\* a violation held during the restriction: the count is 2, only a notice is pending
C3_Witness ==
    \E t \in Tasks :
        /\ tasks[t].pc = "held_send"
        /\ tasks[t].call.op = "send"
        /\ Offenses(Sender(t)) = 2
        /\ clock < restriction_until[Sender(t)]

\* C4: a qualifying violation by a restricted user, decided at or after the expiry,
\* is a kick: the ban is issued, the unban only on the ban's return; when that
\* handling ends the user has neither an offense entry nor an expiry; and a
\* violation by a user without an entry is a first offense.
C4_KickResets ==
    [][\A t \in Tasks :
        /\ (/\ tasks[t].pc = "ad_delete" /\ Steps(t)
            /\ Offenses(Sender(t)) >= 1
            /\ Sender(t) \in DOMAIN restriction_until
            /\ clock >= restriction_until[Sender(t)])
           => (tasks'[t].branch = "kick" /\ tasks'[t].call.op = "ban")
        /\ (Steps(t) /\ tasks'[t].call.op = "unban")
           => (tasks[t].branch = "kick" /\ tasks[t].call.op = "ban")
        /\ (tasks[t].branch = "kick" /\ tasks'[t].pc = "idle")
           => /\ Sender(t) \notin DOMAIN user_offenses'
              /\ Sender(t) \notin DOMAIN restriction_until'
        /\ (/\ tasks[t].pc = "ad_delete" /\ Steps(t)
            /\ Sender(t) \notin DOMAIN user_offenses)
           => tasks'[t].branch = "first"
      ]_vars

\* after a kick of the user, a further violation is decided as a first offense
C4_Witness ==
    \E t \in Tasks :
        /\ tasks[t].pc = "first_restrict"
        /\ stats[Sender(t)].kick = 1
        /\ stats[Sender(t)].first = 2
        /\ Offenses(Sender(t)) = 1

\* C5: in every state (handlers interleave only at awaits, so every state is a
\* point where another handler can run) and for every user, the restriction
\* expiry is set exactly when the offense count is at least 1.
C5_TablesAgree ==
    \A u \in Users : (u \in DOMAIN restriction_until) <=> (Offenses(u) >= 1)

\* a kick is being carried out: both entries are still there while it awaits
C5_Witness ==
    \E t \in Tasks :
        /\ tasks[t].pc = "kick_log"
        /\ Offenses(Sender(t)) >= 2
        /\ Sender(t) \in DOMAIN restriction_until

\* C6: as long as no violation of a user was decided at or after the expiry (no
\* kick), the N violations decided so far, in whatever interleaving, were one first
\* offense and N-1 held ones, and the offense count is N.
C6_OneFirstOffense ==
    \A u \in Users :
        stats[u].kick = 0
        => /\ stats[u].first = (IF stats[u].viol > 0 THEN 1 ELSE 0)
           /\ stats[u].held = stats[u].viol - stats[u].first
           /\ Offenses(u) = stats[u].viol

\* two violations of one user handled at once, both past the count: one first, one held
C6_Witness ==
    \E t1, t2 \in Tasks :
        /\ t1 # t2
        /\ Sender(t1) = Sender(t2)
        /\ tasks[t1].pc = "first_restrict"
        /\ tasks[t2].pc = "held_send"
        /\ Offenses(Sender(t1)) = 2

\* C7: a handler that has issued a delete, restrict, ban, unban, send or audit
\* call writes no per-user state afterwards.
C7_WritesBeforeCalls ==
    [][\A t \in Tasks :
        (tasks[t].enforced /\ Steps(t))
        => UNCHANGED <<message_times, warnings, user_offenses, restriction_until>>
      ]_vars

\* C8: whether the awaited call returns or raises, the next enforcement step of
\* the decision follows: restrict after the delete of a first offense, the audit
\* record after a notice, the mute after the flood notice and the tracker reset
\* after the mute, the auto-mute after the warn reply and the count reset after it.
C8_FailureDoesNotStopEnforcement ==
    [][\A t \in Tasks :
        Steps(t) =>
        /\ (tasks[t].pc = "ad_delete" /\ Offenses(Sender(t)) = 0)
           => tasks'[t].call.op = "restrict"
        /\ tasks[t].pc \in {"first_send", "held_send", "kick_send"}
           => tasks'[t].call.op = "audit"
        /\ tasks[t].pc = "kick_log"
           => Sender(t) \notin DOMAIN user_offenses'
        /\ tasks[t].pc = "flood_send"
           => tasks'[t].call.op = "restrict"
        /\ tasks[t].pc = "flood_mute"
           => message_times'[Sender(t)] = <<>>
        /\ (tasks[t].pc = "warn_reply" /\ tasks[t].w >= WARN_BEFORE_MUTE)
           => tasks'[t].call.op = "restrict"
        /\ tasks[t].pc = "warn_reply2"
           => warnings'[tasks[t].target] = 0
      ]_vars

\* C9: the escalation state written for a decision is not rolled back when the
\* restrict call raises: the step on which the restrict returns or raises writes
\* neither table; an offense entry is removed only by the reset of a kick; while
\* an entry is present its expiry does not change and its count does not drop;
\* and a violation of a user who has an entry is held or a kick, never a first
\* offense.
C9_FailureKeepsState ==
    [][/\ \A t \in Tasks :
            /\ (tasks[t].pc = "first_restrict" /\ Steps(t))
               => /\ UNCHANGED <<user_offenses, restriction_until>>
                  /\ tasks'[t].pc = "first_send"
            /\ (/\ tasks[t].pc = "ad_delete" /\ Steps(t)
                /\ Sender(t) \in DOMAIN user_offenses)
               => tasks'[t].branch \in {"held", "kick"}
       /\ \A u \in Users :
            /\ (u \in DOMAIN user_offenses /\ u \notin DOMAIN user_offenses')
               => \E t \in Tasks : /\ tasks[t].branch = "kick" /\ Sender(t) = u
                                   /\ tasks'[t].pc = "idle"
            /\ (u \in DOMAIN user_offenses /\ u \in DOMAIN user_offenses')
               => user_offenses'[u] >= user_offenses[u]
            /\ (u \in DOMAIN restriction_until /\ u \in DOMAIN restriction_until')
               => restriction_until'[u] = restriction_until[u]
      ]_vars

\* the restrict of a first offense raised, and the user's next violation was held
C9_Witness ==
    \E t1, t2 \in Tasks :
        /\ tasks[t1].branch = "first" /\ tasks[t1].failed
        /\ tasks[t2].pc = "held_send" /\ Sender(t2) = Sender(t1)
        /\ restriction_until[Sender(t1)] = tasks[t1].until
        /\ stats[Sender(t1)].first = 1

\* C10: a message whose sender is trusted when it is delivered is allowed at
\* once: its handler is never left running (so it awaits no transport call), and
\* a delivery that leaves no handler running writes no trusted, flood, warn,
\* offense or restriction state.
C10_TrustedAllowed ==
    [][/\ \A t \in Tasks :
            (tasks[t].pc = "idle" /\ tasks'[t].pc # "idle" /\ tasks'[t].kind = "message")
            => tasks'[t].from \notin trusted
       /\ (delivered' # delivered /\ tasks' = tasks) => UNCHANGED state
      ]_vars

\* a trusted sender's message has been delivered and returned at line 263
C10_Witness == "trusted" \in seen /\ "u1" \in trusted

\* the positions of the ad-escalation branch (lines 298-387)
AdTrack == {"ad_delete", "first_restrict", "first_send", "kick_ban", "kick_unban",
            "kick_send", "kick_log", "held_send"}

\* C11: a message that passes the bypass takes exactly one branch, chosen in the
\* order ad score >= threshold, banned word, link, flood step: the handler enters
\* the first branch whose test its text passes, and once in a branch it never
\* moves to the positions of another one nor writes another branch's table (only
\* an admin's link falls through from the link test to the flood step).
C11_OneBranch ==
    [][\A t \in Tasks : Steps(t) =>
        LET text == full_text(tasks[t].msg)
            score == ad_score(text)
            u == Sender(t)
            pc == tasks[t].pc
            pc2 == tasks'[t].pc
            admin == MemberStatus(u) \in {"administrator", "creator"}
            fed == message_times'[u] # message_times[u]
            kept == message_times' = message_times
        IN  /\ pc = "bypass" =>
                \/ admin /\ pc2 = "idle" /\ kept
                \/ score >= AD_THRESHOLD /\ pc2 = "ad_delete" /\ kept
                \/ /\ score < AD_THRESHOLD /\ HasBannedWord(text)
                   /\ pc2 = "bw_delete" /\ kept
                \/ /\ score < AD_THRESHOLD /\ ~HasBannedWord(text) /\ HasLink(text)
                   /\ pc2 = "link_admin" /\ kept
                \/ /\ score < AD_THRESHOLD /\ ~HasBannedWord(text) /\ ~HasLink(text)
                   /\ pc2 \in {"flood_send", "idle"} /\ fed
            /\ pc \in AdTrack =>
                pc2 \in AdTrack \cup {"end_log", "idle"} /\ kept
            /\ pc = "bw_delete" =>
                pc2 = "end_log" /\ tasks'[t].branch = "banned" /\ UNCHANGED state
            /\ pc = "link_admin" =>
                \/ pc2 = "link_delete" /\ kept
                \/ admin /\ pc2 \in {"flood_send", "idle"} /\ fed
            /\ pc = "link_delete" =>
                pc2 = "end_log" /\ tasks'[t].branch = "link" /\ UNCHANGED state
            /\ pc = "end_log" => pc2 = "idle" /\ UNCHANGED state
            /\ pc \in {"flood_send", "flood_mute"} =>
                /\ pc2 \in {"flood_mute", "idle"}
                /\ UNCHANGED <<user_offenses, restriction_until>>
      ]_vars

\* an advert that also holds a banned word and a link is being escalated
C11_Witness ==
    \E t \in Tasks :
        /\ tasks[t].pc = "first_send"
        /\ HasBannedWord(full_text(tasks[t].msg))
        /\ HasLink(full_text(tasks[t].msg))

\* the calls of `hist` that lie at most `age` seconds before the last one
Within(age) ==
    {i \in 1..Len(probe.hist) : probe.now - probe.hist[i] <= age}

\* C12 as stated: a call appends `now` and returns the number of calls whose time
\* lies strictly inside the trailing window (now - t < FLOOD_WINDOW): calls at
\* 0,1,2,3,4 give 5, and a further call at 10 counts only the calls with t > 2.
C12_StrictWindow ==
    probe.kind = "flood" =>
        /\ probe.cnt = Cardinality(Within(FLOOD_WINDOW - 1))
        /\ probe.hist = <<0, 1, 2, 3, 4>> => probe.cnt = 5
        /\ probe.hist = <<0, 1, 2, 3, 4, 10>> => probe.cnt = 3

\* C12 amended: a call appends `now` and returns the number of calls whose time is
\* not older than the window (now - t <= FLOOD_WINDOW), which are exactly the
\* retained ones: calls at 0,1,2,3,4 give 5, and a further call at 10 counts the
\* calls with t >= 2 (only 0 and 1 are evicted): 4.
C12_InclusiveWindow ==
    probe.kind = "flood" =>
        /\ probe.cnt = Cardinality(Within(FLOOD_WINDOW))
        /\ probe.cnt = Len(probe.dq)
        /\ \A i \in 1..Len(probe.dq) :
              probe.dq[i] = probe.hist[Len(probe.hist) - Len(probe.dq) + i]
        /\ probe.hist # <<>> => probe.dq[Len(probe.dq)] = probe.now
        /\ probe.hist = <<0, 1, 2, 3, 4>> => probe.cnt = 5
        /\ probe.hist = <<0, 1, 2, 3, 4, 10>> => probe.cnt = 4

\* the calls at 0,1,2,3,4 and 10 have been made: the call at 2 is still counted
C12_Witness ==
    /\ probe.kind = "flood"
    /\ probe.hist = <<0, 1, 2, 3, 4, 10>>
    /\ probe.dq = <<2, 3, 4, 10>>
    /\ probe.cnt = 4

\* C13: when a handler issues the flood mute of a user, at least FLOOD_LIMIT
\* messages of that user have been recorded since the flood mute issued before it
\* was decided (or it is the user's first flood mute); and when the mute call
\* has returned or raised the user's tracker is empty.
C13_OneMutePerBurst ==
    [][\A t \in Tasks :
        /\ (tasks[t].pc = "flood_send" /\ tasks'[t].pc = "flood_mute")
           => stats[Sender(t)].since >= FLOOD_LIMIT
        /\ (tasks[t].pc = "flood_mute" /\ Steps(t))
           => message_times'[Sender(t)] = <<>>
      ]_vars

\* C14: of /warn commands handled one after the other, each adds one to the
\* target's count and reports the new count; the one whose new count equals
\* WARN_BEFORE_MUTE (and no other) issues the auto-mute; and when a warn has
\* ended the stored count is below WARN_BEFORE_MUTE - so that k such warns issue
\* floor(k / WARN_BEFORE_MUTE) auto-mutes.
C14_EdgeTriggered ==
    [][\A t \in Tasks :
        /\ (tasks[t].pc = "idle" /\ tasks'[t].pc = "warn_reply")
           => /\ warnings'[tasks'[t].target] = warnings[tasks'[t].target] + 1
              /\ tasks'[t].w = warnings'[tasks'[t].target]
        /\ (tasks[t].pc = "warn_reply" /\ Steps(t))
           => (tasks'[t].pc = "warn_mute" <=> tasks[t].w = WARN_BEFORE_MUTE)
        /\ (tasks[t].kind = "warn" /\ tasks[t].target # "none" /\ tasks'[t].pc = "idle")
           => warnings'[tasks[t].target] < WARN_BEFORE_MUTE
      ]_vars

\* C15: the offense counts and restriction expiries are written only by a handler
\* in the ad-escalation branch, the warn counts only by a /warn handler, the
\* flood timestamps only by a handler at the flood step (a message no earlier
\* rule matched, or the reset after a flood mute).  So a banned-word or link
\* deletion writes none of them, a /warn writes neither offenses, expiries nor
\* timestamps, and an ad violation writes neither warn counts nor timestamps.
C15_OwnTables ==
    [][\A t \in Tasks : Steps(t) =>
        LET pc == tasks[t].pc
            text == full_text(tasks[t].msg)
            warn == tasks[t].kind = "warn" \/ tasks'[t].kind = "warn"
            floodstep == \/ pc = "bypass" /\ Rule(ad_score(text), text) = "flood"
                         \/ pc \in {"link_admin", "flood_mute"}
        IN  /\ (user_offenses' # user_offenses \/ restriction_until' # restriction_until)
               => pc \in AdTrack
            /\ warnings' # warnings => warn
            /\ message_times' # message_times => floodstep
            /\ (pc \in {"bw_delete", "link_delete"}
                \/ (pc = "end_log" /\ tasks[t].branch \in {"banned", "link"}))
               => UNCHANGED <<user_offenses, restriction_until, warnings, message_times>>
            /\ warn => UNCHANGED <<user_offenses, restriction_until, message_times>>
            /\ pc \in AdTrack => UNCHANGED <<warnings, message_times>>
      ]_vars

\* a banned-word deletion is under way for a user who has an offense, a warning
\* and recorded messages
C15_Witness ==
    \E t \in Tasks :
        /\ tasks[t].pc = "end_log" /\ tasks[t].branch = "banned"
        /\ Offenses(Sender(t)) = 1
        /\ warnings[Sender(t)] = 1
        /\ message_times[Sender(t)] # <<>>

\* the signals of the classifier that a text matches
Signals(t) ==
    {s \in {"phone", "chat-app link", "platform invite", "price per weight",
            "sell keyword", "payment"} :
        CASE s = "phone" -> PHONE_RE(t)
          [] s = "chat-app link" -> WHATSAPP_LINK_RE(t)
          [] s = "platform invite" -> TELEGRAM_INVITE_RE(t)
          [] s = "price per weight" -> PRICE_WEIGHT_RE(t)
          [] s = "sell keyword" -> SELL_KEYWORDS(t)
          [] s = "payment" -> PAYMENT_RE(t)}

\* C16: when the appended sentence b matches a signal that a does not match, the
\* score of a followed by b is at least the score of a - also when a alone is
\* nothing but a phone number and b takes the whole-message bonus away.
C16_Monotonic ==
    (probe.kind = "score" /\ probe.sa >= 0 /\ Signals(probe.b) \ Signals(probe.a) # {})
    => probe.sab >= probe.sa

\* a is a phone number alone (3 + 2), b adds a payment word: 3 + 2 without the bonus
C16_Witness ==
    /\ probe.kind = "score"
    /\ probe.a = <<PhoneTok>> /\ probe.b = <<PayTok>>
    /\ probe.sa = 5 /\ probe.sab = 5

\* the weights the contract gives the signals
RECURSIVE SumOfWeights(_)
SumOfWeights(S) ==
    IF S = {} THEN 0
    ELSE LET s == CHOOSE x \in S : TRUE
             w == CASE s = "phone" -> 3
                    [] s = "chat-app link" -> 4
                    [] s = "platform invite" -> 3
                    [] s = "price per weight" -> 3
                    [] s = "sell keyword" -> 3
                    [] s = "payment" -> 2
         IN  w + SumOfWeights(S \ {s})

\* the whole text is one phone number
PhoneAlone(t) == t = <<PhoneTok>>

\* C17: a call of the classifier returns the sum of the weights of the signals
\* the text matches (phone 3, chat-app link 4, platform invite 3, price per weight
\* 3, sell keyword 3, payment 2), plus 2 exactly when the whole text is a phone
\* number, in which case the phone signal matches too; a text that matches no
\* signal, the empty and the missing text among them, scores 0; and the call
\* writes no moderation state.
C17_SumOfWeights ==
    [][(probe.kind = "score" /\ probe' # probe) =>
        LET a == OrEmpty(probe.none, probe.a)
            ab == OrEmpty(probe.none, probe.a \o probe.b)
            Claimed(t) == SumOfWeights(Signals(t)) + (IF PhoneAlone(t) THEN 2 ELSE 0)
        IN  /\ probe'.sa = Claimed(a)
            /\ probe'.sab = Claimed(ab)
            /\ PhoneAlone(a) => "phone" \in Signals(a)
            /\ Signals(a) = {} => probe'.sa = 0
            /\ (probe.none \/ probe.a = <<>>) => probe'.sa = 0
            /\ UNCHANGED <<state, clock, tasks>>
      ]_vars

\* a chat-app link and a sell keyword in capitals score 7; followed by a payment
\* word and a phone number, 12; a phone number on its own would score 5
C17_Witness ==
    /\ probe.kind = "score"
    /\ probe.a = <<WhatsTok, UpSellTok>> /\ probe.b = <<PayTok, PhoneTok>>
    /\ probe.sa = 7 /\ probe.sab = 12
    /\ ad_score(<<PhoneTok>>) = 5

\* C18: of the violations of a user decided so far, in whatever interleaving, no
\* more were decided as a kick than as a first offense: the ban of a kick is
\* issued once per restriction, so between two bans of a user lies a first offense.
C18_OneKickPerCycle ==
    \A u \in Users : stats[u].kick <= stats[u].first

\* C19: the offense entry and the restriction expiry of a user are removed only by
\* the reset of a kick that was decided for this very restriction (the handler
\* read this expiry when it decided the kick), never by the reset of an earlier one.
C19_ResetOwnCycle ==
    [][\A u \in Users :
        (u \in DOMAIN restriction_until
         /\ (u \notin DOMAIN restriction_until' \/ u \notin DOMAIN user_offenses'))
        => \E t \in Tasks :
              /\ Sender(t) = u /\ tasks[t].branch = "kick" /\ tasks'[t].pc = "idle"
              /\ tasks[t].until = restriction_until[u]
      ]_vars

\* ------------------------------------------ the kick branch under fairness
\* a pending call of the kick branch returns or raises (the client's requests
\* carry timeouts) and the event loop then resumes the handler
KickPath(t) ==
    kick_banned(t) \/ kick_unbanned(t) \/ kick_sent(t) \/ kick_logged(t)

\* the message handler alone: no command arrives
MessageNext ==
    \/ Tick
    \/ \E t \in Tasks : filter_message(t) \/ Policy(t)

FairPolicySpec ==
    Init /\ [][MessageNext]_vars /\ \A t \in Tasks : WF_vars(KickPath(t))

\* C20: a handler that decided a kick for a user reaches its return with the
\* user's offense entry and restriction expiry removed, whatever the ban, the
\* unban, the chat notice and the audit record do (return or raise).
C20_KickResets ==
    \A t \in Tasks : \A u \in Users :
        (tasks[t].branch = "kick" /\ Sender(t) = u)
        ~> (tasks[t].pc = "idle"
            /\ u \notin DOMAIN user_offenses /\ u \notin DOMAIN restriction_until)

\* a kick whose ban, notice and audit record all raised has ended with both
\* entries of the user gone
C20_Witness ==
    \E t \in Tasks :
        /\ tasks[t].pc = "idle"
        /\ stats["u1"].kick > 0 /\ stats["u1"].lost
        /\ "u1" \notin DOMAIN user_offenses /\ "u1" \notin DOMAIN restriction_until

\* C21: in a run whose commands all come from senders that are no admins, or
\* whose admin lookups all raise, no handler ever awaits a restrict, ban, unban
\* or pin call, the trusted set stays as it was and so does every warn count.
Privileged == {"restrict", "ban", "unban", "pin"}
C21_NonAdminsChangeNothing ==
    probe.senders # "any" =>
        /\ \A t \in Tasks : tasks[t].call.op \notin Privileged
        /\ trusted = {}
        /\ \A u \in Users : warnings[u] = 0

====
